---- MODULE Spec2Model ----
(***************************************************************************)
(* Model of nfc_reader.py: the card observer (NFCCardObserver.update), the *)
(* per-card pipeline thread (NFCCardObserver._process_card), the lock and  *)
(* counter they share, and the main thread (main).  External collaborators *)
(* (createConnection, connect, read_ndef, decode_records, get_decoded_uri, *)
(* publish_tag_state, Thread.start) are calls whose result is chosen       *)
(* nondeterministically among the results such a call can have, an         *)
(* exception included.                                                     *)
(***************************************************************************)
EXTENDS Naturals, Sequences, FiniteSets

\* ------------------------------------------------------------------ bounds
MaxThreads == 2      \* pipeline threads started over a behaviour
MaxBatches == 2      \* batches delivered to update over a behaviour
MaxBatchLen == 2     \* cards (added plus removed) in one batch
MaxRecords == 2      \* records in one decoded sequence

Threads == 1..MaxThreads
Cards == {1, 2}

\* ------------------------------------------------------------- strings
\* A Python string is a sequence of text fragments; an optional string
\* (str | None) is a record that says whether a string is present.
None == [some |-> FALSE, s |-> <<>>]
Some(s) == [some |-> TRUE, s |-> s]

StartsWith(s, p) == Len(s) >= Len(p) /\ SubSeq(s, 1, Len(p)) = p
SliceFrom(s, n) == SubSeq(s, n + 1, Len(s))
Truthy(o) == o.some /\ o.s # <<>>

HA_TAG_PREFIX == <<"https://www.", "home-assistant.io", "/tag/">>

\* card.atr of the sample cards, as byte sequences
ATR(c) == IF c = 1 THEN <<59, 143>> ELSE <<59, 4, 160>>

HexDigits == <<"0", "1", "2", "3", "4", "5", "6", "7",
               "8", "9", "A", "B", "C", "D", "E", "F">>
HexByte(b) == <<HexDigits[(b \div 16) + 1], HexDigits[(b % 16) + 1]>>

\* (mutant) the hex digits are not separated
RECURSIVE toHexString_Packed(_)
toHexString_Packed(bytes) ==
    IF bytes = <<>> THEN <<>>
    ELSE HexByte(bytes[1]) \o toHexString_Packed(Tail(bytes))

\* smartcard.util.toHexString: two upper-case hex digits per byte, joined
\* by single spaces
RECURSIVE toHexString(_)
toHexString(bytes) ==
    IF bytes = <<>> THEN <<>>
    ELSE IF Len(bytes) = 1 THEN HexByte(bytes[1])
    ELSE HexByte(bytes[1]) \o <<" ">> \o toHexString(Tail(bytes))

NoNdefState(c) == Some(<<"no_ndef_">> \o toHexString(ATR(c)))
GenericState(c) == Some(<<"generic_">> \o toHexString(ATR(c)))

\* ------------------------------------------------------------- records
\* What the pipeline uses of a decoded record: is_uri_record, the value of
\* get_decoded_uri(), is_android_app_record.
UriRecord(u) ==
    [is_uri_record |-> TRUE, is_android_app_record |-> FALSE, uri |-> u]
AppRecord ==
    [is_uri_record |-> FALSE, is_android_app_record |-> TRUE, uri |-> None]

SampleRecords ==
    { UriRecord(Some(HA_TAG_PREFIX \o <<"first">>)),
      UriRecord(Some(HA_TAG_PREFIX \o <<"second">>)),
      UriRecord(Some(<<"https://www.", "home-assistant.io", "/docs/">>)),
      UriRecord(None),
      AppRecord }

RECURSIVE SeqsUpTo(_, _)
SeqsUpTo(S, n) ==
    IF n = 0 THEN {<<>>}
    ELSE LET shorter == SeqsUpTo(S, n - 1)
         IN  shorter \cup {Append(q, x) : q \in shorter, x \in S}

RecordSeqs == SeqsUpTo(SampleRecords, MaxRecords)

\* uri and uri.startswith(HA_TAG_PREFIX)
IsHATag(rec) ==
    rec.is_uri_record /\ Truthy(rec.uri) /\ StartsWith(rec.uri.s, HA_TAG_PREFIX)
\* uri[len(HA_TAG_PREFIX):]
TagId(rec) == SliceFrom(rec.uri.s, Len(HA_TAG_PREFIX))

\* ------------------------------------------------------------- batches
\* What the card monitor hands to update: the cards that appeared and the
\* cards that disappeared since its last poll, so no card is listed twice.
Range(q) == {q[i] : i \in 1..Len(q)}
Batches ==
    { b \in SeqsUpTo(Cards, MaxBatchLen) \X SeqsUpTo(Cards, MaxBatchLen) :
        /\ Len(b[1]) + Len(b[2]) \in 1..MaxBatchLen
        /\ Cardinality(Range(b[1])) = Len(b[1])
        /\ Cardinality(Range(b[2])) = Len(b[2])
        /\ Range(b[1]) \cap Range(b[2]) = {} }

\* --------------------------------------------------------------- state
VARIABLES
    cards_processed,   \* self.cards_processed
    processing_lock,   \* holder of self.processing_lock, 0 when free
    th,                \* the pipeline threads, by thread number
    nthreads,          \* threads started so far
    mon,               \* the monitor thread inside update
    nbatches,          \* batches delivered so far
    nremoved,          \* removed cards listed in the batches delivered
    calls,             \* calls made to publish_tag_state, in order
    acquired,          \* threads in the order they acquired the lock
    main               \* the main thread inside main()

vars == <<cards_processed, processing_lock, th, nthreads, mon, nbatches,
          nremoved, calls, acquired, main>>

\* A thread: where it is in _process_card (pc), its argument (card), whether
\* its connection is open (conn), its locals (records, idx for the loop
\* position, ha_tag_found, tmp for the value loaded by +=), and what is
\* remembered of the run: the result of read_ndef, whether decode_records
\* returned, whether it met a decode failure, how the run ended; marked
\* tells that the card was reported removed after the thread had read it.
NewThread ==
    [pc |-> "unborn", card |-> 0, conn |-> FALSE, readRes |-> "none",
     decoded |-> FALSE, decode_error |-> FALSE, records |-> <<>>, idx |-> 0,
     ha_tag_found |-> FALSE, tmp |-> 0, outcome |-> "none", marked |-> FALSE]

\* The main thread: where it is in main (pc), whether it has created the
\* observer and added it to a monitor, and how main ended: the step it was
\* at, its return value (<<>> when it returned nothing) and the cause.
MainAt(pc, observer, monitor) ==
    [pc |-> pc, observer |-> observer, monitor |-> monitor, at |-> "none",
     ret |-> <<>>, cause |-> "none"]

\* The observer as NFCCardObserver.__init__ leaves it, no event delivered.
ObserverInit ==
    /\ cards_processed = 0
    /\ processing_lock = 0
    /\ th = [t \in Threads |-> NewThread]
    /\ nthreads = 0
    /\ mon = [pc |-> "idle", added |-> <<>>, removed |-> <<>>]
    /\ nbatches = 0
    /\ nremoved = 0
    /\ calls = <<>>
    /\ acquired = <<>>

\* The observer is registered and main sleeps in its loop.
Init == ObserverInit /\ main = MainAt("monitoring", TRUE, TRUE)

\* The process has just entered main.
MainInit == ObserverInit /\ main = MainAt("check", FALSE, FALSE)

\* (mutant) callbacks run whether or not main has registered the observer
Running_Always == TRUE

\* Callbacks and daemon threads run while the monitor is registered and the
\* process lives, that is while main is in its loop.
Running == main.pc = "monitoring"

\* ------------------------------------------------------------ helpers
\* A call of publish_tag_state: who made it (0 is update), for which card,
\* with what state.
PublishCall(by, c, v) == [by |-> by, card |-> c, val |-> v]

\* The thread has read its card and has not ended.
HasRead(t) == th[t].pc \in {"no_ndef", "decode", "scan", "generic"}

\* The threads once the absence marker of card c is published: a thread
\* that has read c remembers that c was reported gone (marked).
AfterRemoval(c) ==
    [t \in Threads |->
        IF HasRead(t) /\ th[t].card = c
        THEN [th[t] EXCEPT !.marked = TRUE]
        ELSE th[t]]

\* (mutant) the connection is not closed on the way out
ExitWith_ConnectionLeft(r, outcome) ==
    [NewThread EXCEPT !.pc = "done", !.outcome = outcome, !.card = r.card,
                      !.readRes = r.readRes, !.decoded = r.decoded,
                      !.decode_error = r.decode_error, !.conn = r.conn]

\* Leaving _process_card: `with connection` disconnects, the frame and its
\* locals (records, the loop index, ha_tag_found) are gone, the thread ends.
ExitWith(r, outcome) ==
    [NewThread EXCEPT !.pc = "done", !.outcome = outcome, !.card = r.card,
                      !.readRes = r.readRes, !.decoded = r.decoded,
                      !.decode_error = r.decode_error]

\* (mutant) the lock stays held on the way out
Release_Held(t) == processing_lock

\* Leaving `with self.processing_lock`
Release(t) == IF processing_lock = t THEN 0 ELSE processing_lock

\* ------------------------------------------------------------ update
\* The values update can be called with: a pair of card lists, which is
\* what the card monitor passes; None; a tuple that is not a pair; a true
\* value that has no length (a number, say).
HandlerShapes == {"pair", "none", "not_a_pair", "unsized"}

\* update, lines 83-91: the debug line (len(handlers) if handlers else 0),
\* which is before the try, then the batch is unpacked inside the try
UpdateBegin ==
    /\ mon.pc = "idle"
    /\ nbatches < MaxBatches
    /\ \E shape \in HandlerShapes :
        CASE shape = "pair" ->
               \E b \in Batches :
                  /\ nthreads + Len(b[1]) <= MaxThreads
                  /\ mon' = [pc |-> "run", added |-> b[1], removed |-> b[2]]
                  /\ nremoved' = nremoved + Len(b[2])
          [] shape = "unsized" ->
               \* len(handlers) raises TypeError at line 84
               /\ mon' = [pc |-> "escaped", added |-> <<>>, removed |-> <<>>]
               /\ UNCHANGED nremoved
          [] OTHER ->
               \* the unpacking at line 88 raises, line 107 catches
               /\ mon' = [pc |-> "idle", added |-> <<>>, removed |-> <<>>]
               /\ UNCHANGED nremoved
    /\ nbatches' = nbatches + 1
    /\ Running /\ UNCHANGED main
    /\ UNCHANGED <<cards_processed, processing_lock, th, nthreads, calls,
                   acquired>>

\* update returns when both loops are over
MonAfter(a, r) ==
    [pc |-> IF a = <<>> /\ r = <<>> THEN "idle" ELSE "run",
     added |-> a, removed |-> r]

\* the except clause of update: the rest of the batch is dropped
MonAbort == [pc |-> "idle", added |-> <<>>, removed |-> <<>>]

\* (mutant) the card is processed only once the lock is free
StartThread_Waiting ==
    /\ mon.pc = "run"
    /\ mon.added # <<>>
    /\ processing_lock = 0
    /\ nthreads' = nthreads + 1
    /\ th' = [th EXCEPT ![nthreads + 1] =
                 [NewThread EXCEPT !.pc = "lock", !.card = Head(mon.added)]]
    /\ mon' = MonAfter(Tail(mon.added), mon.removed)
    /\ Running /\ UNCHANGED main
    /\ UNCHANGED <<cards_processed, processing_lock, nbatches, nremoved,
                   calls, acquired>>

\* update, lines 94-99: one thread per added card
StartThread ==
    /\ mon.pc = "run"
    /\ mon.added # <<>>
    /\ \/ /\ nthreads' = nthreads + 1
          /\ th' = [th EXCEPT ![nthreads + 1] =
                       [NewThread EXCEPT !.pc = "lock",
                                         !.card = Head(mon.added)]]
          /\ mon' = MonAfter(Tail(mon.added), mon.removed)
       \/ \* Thread.start raises RuntimeError
          /\ mon' = MonAbort
          /\ UNCHANGED <<th, nthreads>>
    /\ Running /\ UNCHANGED main
    /\ UNCHANGED <<cards_processed, processing_lock, nbatches, nremoved,
                   calls, acquired>>

\* update, lines 102-105: the absence marker per removed card
PublishRemoved ==
    /\ mon.pc = "run"
    /\ mon.added = <<>>
    /\ mon.removed # <<>>
    /\ calls' = Append(calls, PublishCall(0, Head(mon.removed), None))
    /\ th' = AfterRemoval(Head(mon.removed))
    /\ \/ mon' = MonAfter(<<>>, Tail(mon.removed))
       \/ mon' = MonAbort      \* publish_tag_state raises
    /\ Running /\ UNCHANGED main
    /\ UNCHANGED <<cards_processed, processing_lock, nthreads, nbatches,
                   nremoved, acquired>>

\* ------------------------------------------------------ _process_card
\* (mutant) the pipeline runs without taking the lock
Acquire_NoLock(t) ==
    /\ th[t].pc = "lock"
    /\ processing_lock' = t
    /\ acquired' = Append(acquired, t)
    /\ th' = [th EXCEPT ![t].pc = "connect"]
    /\ Running /\ UNCHANGED main
    /\ UNCHANGED <<cards_processed, nthreads, mon, nbatches, nremoved, calls>>

\* line 113: with self.processing_lock
Acquire(t) ==
    /\ th[t].pc = "lock"
    /\ processing_lock = 0
    /\ processing_lock' = t
    /\ acquired' = Append(acquired, t)
    /\ th' = [th EXCEPT ![t].pc = "connect"]
    /\ Running /\ UNCHANGED main
    /\ UNCHANGED <<cards_processed, nthreads, mon, nbatches, nremoved, calls>>

\* lines 116-122: createConnection, the type check, connection.connect()
Connect(t) ==
    /\ th[t].pc = "connect"
    /\ \/ /\ th' = [th EXCEPT ![t].pc = "read", ![t].conn = TRUE]
          /\ UNCHANGED processing_lock
       \/ \* not a CardConnection: return
          /\ th' = [th EXCEPT ![t] = ExitWith(@, "invalid_connection")]
          /\ processing_lock' = Release(t)
       \/ \* createConnection or connect raises
          /\ th' = [th EXCEPT ![t] = ExitWith(@, "exception")]
          /\ processing_lock' = Release(t)
    /\ Running /\ UNCHANGED main
    /\ UNCHANGED <<cards_processed, nthreads, mon, nbatches, nremoved, calls,
                   acquired>>

ReadResults == {"error", "empty", "data", "raise"}

\* (mutant) the error of read_ndef is not looked at
ReadNdef_ErrorIgnored(t) ==
    /\ th[t].pc = "read"
    /\ \E res \in ReadResults :
        CASE res = "raise" ->
               /\ th' = [th EXCEPT ![t] =
                            ExitWith([@ EXCEPT !.readRes = res], "exception")]
               /\ processing_lock' = Release(t)
          [] res \in {"error", "empty"} ->
               /\ th' = [th EXCEPT ![t].readRes = res, ![t].pc = "no_ndef"]
               /\ UNCHANGED processing_lock
          [] OTHER ->
               /\ th' = [th EXCEPT ![t].readRes = res, ![t].pc = "decode"]
               /\ UNCHANGED processing_lock
    /\ Running /\ UNCHANGED main
    /\ UNCHANGED <<cards_processed, nthreads, mon, nbatches, nremoved, calls,
                   acquired>>

\* lines 127-141: read_ndef returns, and the branch on (data, error)
ReadNdef(t) ==
    /\ th[t].pc = "read"
    /\ \E res \in ReadResults :
        CASE res = "error" ->
               /\ th' = [th EXCEPT ![t] =
                            ExitWith([@ EXCEPT !.readRes = res], "read_error")]
               /\ processing_lock' = Release(t)
          [] res = "raise" ->
               /\ th' = [th EXCEPT ![t] =
                            ExitWith([@ EXCEPT !.readRes = res], "exception")]
               /\ processing_lock' = Release(t)
          [] res = "empty" ->
               /\ th' = [th EXCEPT ![t].readRes = res, ![t].pc = "no_ndef"]
               /\ UNCHANGED processing_lock
          [] OTHER ->
               /\ th' = [th EXCEPT ![t].readRes = res, ![t].pc = "decode"]
               /\ UNCHANGED processing_lock
    /\ Running /\ UNCHANGED main
    /\ UNCHANGED <<cards_processed, nthreads, mon, nbatches, nremoved, calls,
                   acquired>>

\* lines 133-138: no data, publish no_ndef_<atr> and return
PublishNoNdef(t) ==
    /\ th[t].pc = "no_ndef"
    /\ calls' = Append(calls,
                       PublishCall(t, th[t].card, NoNdefState(th[t].card)))
    /\ \/ th' = [th EXCEPT ![t] = ExitWith(@, "no_ndef")]
       \/ th' = [th EXCEPT ![t] = ExitWith(@, "exception")]
    /\ processing_lock' = Release(t)
    /\ Running /\ UNCHANGED main
    /\ UNCHANGED <<cards_processed, nthreads, mon, nbatches, nremoved,
                   acquired>>

\* (mutant) an Android application record counts as a tag found
Found_AppCounts(prev, rec) ==
    prev \/ IsHATag(rec) \/ rec.is_android_app_record

\* lines 168-171: ha_tag_found after a record
Found(prev, rec) == prev \/ IsHATag(rec)

\* (mutant) the loop is left at a URI record that is no Home Assistant tag
AfterRecord_StopAtSkip(rs, i, found) ==
    IF i < Len(rs) /\ ~(i > 0 /\ rs[i].is_uri_record /\ ~IsHATag(rs[i]))
    THEN "scan"
    ELSE IF found THEN "incr" ELSE "generic"

\* (mutant) the generic state is published whether or not a tag was found
AfterRecord_AlwaysGeneric(rs, i, found) ==
    IF i < Len(rs) THEN "scan" ELSE "generic"

\* (mutant) the loop is left at the first Home Assistant tag
AfterRecord_Break(rs, i, found) ==
    IF i < Len(rs) /\ ~found THEN "scan"
    ELSE IF found THEN "incr" ELSE "generic"

\* where the thread goes once record number i of rs is behind it
AfterRecord(rs, i, found) ==
    IF i < Len(rs) THEN "scan" ELSE IF found THEN "incr" ELSE "generic"

\* The record decoder (ndef_decoder.decode_records) on a buffer that holds
\* the records of content and is well-formed up to the end of record
\* number k: the records decoded before the failure point, and whether
\* there was a failure.
DecodeRecords(content, k) ==
    [records |-> SubSeq(content, 1, k), error |-> k < Len(content)]

\* (mutant) a decode failure comes out of decode_records as an exception
Decode_FailureRaises(t) ==
    /\ th[t].pc = "decode"
    /\ \/ \E content \in RecordSeqs :
            th' = [th EXCEPT ![t].decoded = TRUE, ![t].records = content,
                             ![t].pc = AfterRecord(content, 0, FALSE)]
          /\ UNCHANGED processing_lock
       \/ /\ th' = [th EXCEPT ![t] =
                        ExitWith([@ EXCEPT !.decode_error = TRUE], "exception")]
          /\ processing_lock' = Release(t)
       \/ /\ th' = [th EXCEPT ![t] = ExitWith(@, "exception")]
          /\ processing_lock' = Release(t)
    /\ Running /\ UNCHANGED main
    /\ UNCHANGED <<cards_processed, nthreads, mon, nbatches, nremoved, calls,
                   acquired>>

\* lines 143-147: decode_records(data)
Decode(t) ==
    /\ th[t].pc = "decode"
    /\ \/ \E content \in RecordSeqs : \E k \in 0..Len(content) :
            LET res == DecodeRecords(content, k)
            IN  th' = [th EXCEPT ![t].decoded = TRUE,
                                 ![t].decode_error = res.error,
                                 ![t].records = res.records,
                                 ![t].pc = AfterRecord(res.records, 0, FALSE)]
          /\ UNCHANGED processing_lock
       \/ \* decode_records raises
          /\ th' = [th EXCEPT ![t] = ExitWith(@, "exception")]
          /\ processing_lock' = Release(t)
    /\ Running /\ UNCHANGED main
    /\ UNCHANGED <<cards_processed, nthreads, mon, nbatches, nremoved, calls,
                   acquired>>

\* lines 148-188: one turn of the loop over the records
ScanRecord(t) ==
    /\ th[t].pc = "scan"
    /\ LET i == th[t].idx + 1
           rec == th[t].records[i]
           found == Found(th[t].ha_tag_found, rec)
           next == [th[t] EXCEPT !.idx = i, !.ha_tag_found = found,
                                 !.pc = AfterRecord(th[t].records, i, found)]
       IN  \/ /\ IsHATag(rec)
              /\ calls' = Append(calls,
                                 PublishCall(t, th[t].card, Some(TagId(rec))))
              /\ \/ /\ th' = [th EXCEPT ![t] = next]
                    /\ UNCHANGED processing_lock
                 \/ \* publish_tag_state raises
                    /\ th' = [th EXCEPT ![t] =
                                 ExitWith([next EXCEPT !.pc = "scan"],
                                          "exception")]
                    /\ processing_lock' = Release(t)
           \/ /\ ~IsHATag(rec)
              /\ th' = [th EXCEPT ![t] = next]
              /\ UNCHANGED <<calls, processing_lock>>
           \/ \* get_decoded_uri raises
              /\ rec.is_uri_record
              /\ th' = [th EXCEPT ![t] = ExitWith(@, "exception")]
              /\ processing_lock' = Release(t)
              /\ UNCHANGED calls
    /\ Running /\ UNCHANGED main
    /\ UNCHANGED <<cards_processed, nthreads, mon, nbatches, nremoved,
                   acquired>>

\* lines 191-194: no Home Assistant tag was found
PublishGeneric(t) ==
    /\ th[t].pc = "generic"
    /\ calls' = Append(calls,
                       PublishCall(t, th[t].card, GenericState(th[t].card)))
    /\ \/ /\ th' = [th EXCEPT ![t].pc = "incr"]
          /\ UNCHANGED processing_lock
       \/ /\ th' = [th EXCEPT ![t] = ExitWith(@, "exception")]
          /\ processing_lock' = Release(t)
    /\ Running /\ UNCHANGED main
    /\ UNCHANGED <<cards_processed, nthreads, mon, nbatches, nremoved,
                   acquired>>

\* line 196, self.cards_processed += 1: the load
IncrLoad(t) ==
    /\ th[t].pc = "incr"
    /\ th' = [th EXCEPT ![t].tmp = cards_processed, ![t].pc = "store"]
    /\ Running /\ UNCHANGED main
    /\ UNCHANGED <<cards_processed, processing_lock, nthreads, mon, nbatches,
                   nremoved, calls, acquired>>

\* (mutant) the counter is set, not incremented
IncrStore_Set(t) ==
    /\ th[t].pc = "store"
    /\ cards_processed' = 1
    /\ th' = [th EXCEPT ![t] = ExitWith(@, "completed")]
    /\ processing_lock' = Release(t)
    /\ Running /\ UNCHANGED main
    /\ UNCHANGED <<nthreads, mon, nbatches, nremoved, calls, acquired>>

\* line 196, the store; lines 197-200 and the end of the function
IncrStore(t) ==
    /\ th[t].pc = "store"
    /\ cards_processed' = th[t].tmp + 1
    /\ th' = [th EXCEPT ![t] = ExitWith(@, "completed")]
    /\ processing_lock' = Release(t)
    /\ Running /\ UNCHANGED main
    /\ UNCHANGED <<nthreads, mon, nbatches, nremoved, calls, acquired>>

Pipeline(t) ==
    \/ Connect(t)
    \/ ReadNdef(t)
    \/ PublishNoNdef(t)
    \/ Decode(t)
    \/ ScanRecord(t)
    \/ PublishGeneric(t)
    \/ IncrLoad(t)
    \/ IncrStore(t)

Monitor == UpdateBegin \/ StartThread \/ PublishRemoved

Next ==
    \/ Monitor
    \/ \E t \in Threads : Acquire(t)
    \/ \E t \in Threads : Pipeline(t)

Spec == Init /\ [][Next]_vars

\* ------------------------------------------------------------- main()
\* check_pcsc_system: False when enumerating the readers raises or when no
\* reader is listed, True otherwise.
ReaderCounts == {0, 1}
check_pcsc_system(available_readers, raises) ==
    ~raises /\ available_readers > 0

\* The steps of main that are inside its try block.
InTry(pc) == pc \in {"observer", "monitor", "monitoring"}

MainEnd(how, ret, cause) ==
    [main EXCEPT !.pc = how, !.at = main.pc, !.ret = ret, !.cause = cause]

\* What belongs to the observer, its monitor thread and its card threads.
ObserverVars == <<cards_processed, processing_lock, th, nthreads, mon,
                  nbatches, nremoved, calls, acquired>>

\* When the process ends, its daemon threads, the monitor thread and the
\* lock end with it; what was published and counted stays.
ProcessExit ==
    /\ th' = [t \in Threads |-> NewThread]
    /\ mon' = [pc |-> "idle", added |-> <<>>, removed |-> <<>>]
    /\ processing_lock' = 0
    /\ UNCHANGED <<cards_processed, nthreads, nbatches, nremoved, calls,
                   acquired>>

MainCheck ==
    /\ main.pc = "check"
    /\ \E n \in ReaderCounts, raises \in BOOLEAN :
          main' = IF check_pcsc_system(n, raises)
                  THEN [main EXCEPT !.pc = "mqtt"]
                  ELSE MainEnd("returned", <<1>>, "not_ready")
    /\ UNCHANGED ObserverVars

MainSetupMqtt ==
    /\ main.pc = "mqtt"
    /\ main' = [main EXCEPT !.pc = "observer"]
    /\ UNCHANGED ObserverVars

MainCreateObserver ==
    /\ main.pc = "observer"
    /\ main' = [main EXCEPT !.pc = "monitor", !.observer = TRUE]
    /\ UNCHANGED ObserverVars

MainAddObserver ==
    /\ main.pc = "monitor"
    /\ main' = [main EXCEPT !.pc = "monitoring", !.monitor = TRUE]
    /\ UNCHANGED ObserverVars

\* An exception other than KeyboardInterrupt inside the try block.
MainFail ==
    /\ InTry(main.pc)
    /\ main' = MainEnd("returned", <<1>>, "exception")
    /\ ProcessExit

\* KeyboardInterrupt reaches the main thread wherever it is.
MainInterrupt ==
    /\ main.pc \in {"check", "mqtt", "observer", "monitor", "monitoring"}
    /\ main' = IF InTry(main.pc)
               THEN MainEnd("returned", <<0>>, "interrupt")
               ELSE MainEnd("escaped", <<>>, "interrupt")
    /\ ProcessExit

MainStep ==
    \/ MainCheck
    \/ MainSetupMqtt
    \/ MainCreateObserver
    \/ MainAddObserver
    \/ MainFail
    \/ MainInterrupt

MainNext == MainStep \/ Next

MainSpec == MainInit /\ [][MainNext]_vars

\* Every thread that can take a step eventually takes one (read_ndef
\* returns, the scheduler runs the thread), and a thread that finds the
\* lock free again and again eventually gets it.
Fairness ==
    /\ WF_vars(Monitor)
    /\ \A t \in Threads : WF_vars(Pipeline(t))
    /\ \A t \in Threads : SF_vars(Acquire(t))

\* Liveness is checked over the behaviours that follow one call of update
\* with handlers None, which the except clause of update absorbs: the
\* observer is as constructed and one batch has been delivered.
LiveInit ==
    /\ cards_processed = 0
    /\ processing_lock = 0
    /\ th = [t \in Threads |-> NewThread]
    /\ nthreads = 0
    /\ mon = [pc |-> "idle", added |-> <<>>, removed |-> <<>>]
    /\ nbatches = 1
    /\ nremoved = 0
    /\ calls = <<>>
    /\ acquired = <<>>
    /\ main = MainAt("monitoring", TRUE, TRUE)

LiveSpec == LiveInit /\ [][Next]_vars /\ Fairness

\* ------------------------------------------------------ for the claims
InPipeline(t) ==
    th[t].pc \in {"connect", "read", "no_ndef", "decode", "scan", "generic",
                  "incr", "store"}
ScanOver(t) == th[t].pc \in {"incr", "store"}

PubsBy(t) == SelectSeq(calls, LAMBDA c : c.by = t)
ValsBy(t) == [i \in 1..Len(PubsBy(t)) |-> PubsBy(t)[i].val]

Pos(q, x) == CHOOSE i \in 1..Len(q) : q[i] = x

HAIndexes(rs) == {i \in 1..Len(rs) : IsHATag(rs[i])}
MaxOf(S) == CHOOSE i \in S : \A j \in S : j <= i

\* what one run publishes over a record sequence, record by record
RECURSIVE TagStates(_)
TagStates(rs) ==
    IF rs = <<>> THEN <<>>
    ELSE (IF IsHATag(Head(rs)) THEN <<Some(TagId(Head(rs)))>> ELSE <<>>)
            \o TagStates(Tail(rs))

\* the card's ATR as the hex text the program prints, written out
AtrHexText(c) ==
    IF c = 1 THEN <<"3", "B", " ", "8", "F">>
    ELSE <<"3", "B", " ", "0", "4", " ", "A", "0">>

\* C1: at most one _process_card run is between acquiring and releasing
\* processing_lock, that run is the holder of the lock, and the publish
\* calls of two runs appear in the order in which the runs took the lock.
C1_PipelinesNeverOverlap ==
    /\ \A t, u \in Threads : InPipeline(t) /\ InPipeline(u) => t = u
    /\ \A t \in Threads : InPipeline(t) => processing_lock = t
    /\ \A i, j \in 1..Len(calls) :
          i < j /\ calls[i].by # 0 /\ calls[j].by # 0
             => Pos(acquired, calls[i].by) <= Pos(acquired, calls[j].by)

\* two runs have published, the one started second having taken the lock
\* first, while the other is still inside the pipeline
C1_Witness ==
    /\ Len(acquired) >= 2
    /\ acquired[1] > acquired[2]
    /\ PubsBy(acquired[1]) # <<>>
    /\ PubsBy(acquired[2]) # <<>>
    /\ InPipeline(acquired[2])

\* C2 (as claimed): a run whose read returned without error and that got
\* to the end of its work has called publish_tag_state exactly once, a run
\* whose read failed has called it zero times.
C2_ExactlyOnePublishPerRun ==
    \A t \in Threads :
        /\ (ScanOver(t) \/ th[t].outcome \in {"completed", "no_ndef"})
              => Len(PubsBy(t)) = 1
        /\ th[t].outcome = "read_error" => Len(PubsBy(t)) = 0

\* C3: when the record sequence of a run holds more than one Home
\* Assistant URI record, the last publish call of the run, once the scan
\* is over, carries the tag id of the last such record.
C3_LastMatchWins ==
    \A t \in Threads :
        ScanOver(t) /\ Cardinality(HAIndexes(th[t].records)) > 1
           => /\ PubsBy(t) # <<>>
              /\ PubsBy(t)[Len(PubsBy(t))].val =
                    Some(TagId(th[t].records[MaxOf(HAIndexes(th[t].records))]))

\* a run has scanned two Home Assistant records with different tag ids
C3_Witness ==
    \E t \in Threads :
        /\ ScanOver(t)
        /\ Cardinality(HAIndexes(th[t].records)) > 1
        /\ TagId(th[t].records[1]) # TagId(th[t].records[2])

\* C4 (as claimed): once update has returned, every removed card listed
\* in the batches delivered so far has had its absence marker published.
C4_EveryRemovalPublished ==
    mon.pc = "idle" => Len(PubsBy(0)) = nremoved

\* C5: a run whose read returned an error has published nothing, has not
\* decoded, has not been counted, and is over with its connection closed
\* and the lock released.
C5_ReadErrorPublishesNothing ==
    \A t \in Threads :
        th[t].readRes = "error"
           => /\ th[t].pc = "done"
              /\ th[t].outcome = "read_error"
              /\ PubsBy(t) = <<>>
              /\ ~th[t].decoded
              /\ ~th[t].conn
              /\ processing_lock # t
              /\ cards_processed <=
                    Cardinality({u \in Threads \ {t} :
                                    th[u].outcome = "completed"})

\* a run ended on a read error after another run had been counted
C5_Witness ==
    \E t, u \in Threads :
        /\ th[t].readRes = "error"
        /\ th[u].outcome = "completed"
        /\ Pos(acquired, u) < Pos(acquired, t)

\* C6: a run that is over, however it ended, does not hold
\* processing_lock and has no connection open.
C6_ReleasedOnEveryExit ==
    \A t \in Threads :
        th[t].pc = "done" => processing_lock # t /\ ~th[t].conn

\* runs that ended in each of the ways the pipeline can end
C6_Witness ==
    /\ \E t \in Threads : th[t].outcome = "exception" /\ PubsBy(t) # <<>>
    /\ \E t \in Threads : th[t].outcome \in {"completed", "read_error",
                                            "no_ndef", "invalid_connection"}

\* C7: a run that failed has left the lock free for the others (the lock
\* is only ever held by a run that is inside the pipeline), and every run
\* that reaches the end of its scan has published what its own records
\* and card call for, whatever happened to the other runs.
C7_FailureConfined ==
    /\ processing_lock # 0 => InPipeline(processing_lock)
    /\ \A u \in Threads :
          /\ ScanOver(u) =>
                ValsBy(u) =
                   IF TagStates(th[u].records) = <<>>
                   THEN <<Some(<<"generic_">> \o AtrHexText(th[u].card))>>
                   ELSE TagStates(th[u].records)
          /\ th[u].outcome \in {"completed", "no_ndef"} => PubsBy(u) # <<>>

\* a run failed with an exception, and the run that took the lock after it
\* has scanned its records and published
C7_Witness ==
    \E t, u \in Threads :
        /\ th[t].outcome = "exception"
        /\ ScanOver(u)
        /\ PubsBy(u) # <<>>
        /\ Pos(acquired, t) < Pos(acquired, u)

\* C8: inside update the monitor's next step (starting the thread of the
\* next added card, publishing the absence marker of the next removed
\* card) can always be taken, whoever holds processing_lock.
C8_UpdateNeverWaits ==
    mon.pc = "run" =>
        /\ mon.added # <<>> => ENABLED StartThread
        /\ mon.added = <<>> => ENABLED PublishRemoved

\* update has a thread to start and a marker to publish while a run that
\* is waiting for read_ndef holds the lock
C8_Witness ==
    /\ mon.pc = "run"
    /\ mon.added # <<>>
    /\ mon.removed # <<>>
    /\ processing_lock # 0
    /\ th[processing_lock].pc = "read"

C10_NoNdefOnly ==
    \A t \in Threads :
        th[t].readRes = "empty"
           => /\ ~th[t].decoded
              /\ th[t].pc \in {"no_ndef", "done"}
              /\ th[t].pc = "no_ndef" => PubsBy(t) = <<>>
              /\ th[t].pc = "done" =>
                    ValsBy(t) = <<Some(<<"no_ndef_">> \o AtrHexText(th[t].card))>>

\* a run on the card with the three-byte ATR found no data and published
C10_Witness ==
    \E t \in Threads :
        /\ th[t].readRes = "empty"
        /\ th[t].outcome = "no_ndef"
        /\ th[t].card = 2

\* C11: a run that has scanned a non-empty read without a Home Assistant
\* URI record has published "generic_" plus the ATR hex and nothing else,
\* and what a run publishes is what it would publish for the same
\* sequence with the Android application records taken out.
C11_GenericUnlessTag ==
    \A t \in Threads :
        ScanOver(t) =>
            LET rs == th[t].records
                noApps == SelectSeq(rs, LAMBDA r : ~r.is_android_app_record)
                generic == <<Some(<<"generic_">> \o AtrHexText(th[t].card))>>
            IN  /\ HAIndexes(rs) = {} => ValsBy(t) = generic
                /\ ValsBy(t) = IF TagStates(noApps) = <<>> THEN generic
                               ELSE TagStates(noApps)

\* a run has scanned an application record and a URI record that is not
\* a Home Assistant tag, and has published
C11_Witness ==
    \E t \in Threads :
        /\ ScanOver(t)
        /\ Len(th[t].records) = 2
        /\ th[t].records[1].is_android_app_record
        /\ th[t].records[2].is_uri_record
        /\ HAIndexes(th[t].records) = {}
        /\ PubsBy(t) # <<>>

\* the variant of a published state
Variant(v) ==
    IF ~v.some THEN "absent"
    ELSE IF v.s # <<>> /\ v.s[1] = "generic_" THEN "generic"
    ELSE IF v.s # <<>> /\ v.s[1] = "no_ndef_" THEN "no_ndef"
    ELSE "tag"

\* C12: all the states one run publishes are of one variant, and once the
\* run has met a Home Assistant URI record that variant is the tag id.
C12_VariantsExclusive ==
    \A t \in Threads :
        /\ \A i, j \in 1..Len(ValsBy(t)) :
              Variant(ValsBy(t)[i]) = Variant(ValsBy(t)[j])
        /\ (\E i \in HAIndexes(th[t].records) : i <= th[t].idx)
              => /\ ValsBy(t) # <<>>
                 /\ \A i \in 1..Len(ValsBy(t)) : Variant(ValsBy(t)[i]) = "tag"

\* a run has scanned a Home Assistant record followed by a record that is
\* none, and is past the place where the generic state is published
C12_Witness ==
    \E t \in Threads :
        /\ ScanOver(t)
        /\ Len(th[t].records) = 2
        /\ HAIndexes(th[t].records) = {1}

C14_NothingEscapesUpdate ==
    mon.pc # "escaped"

\* C15: a thread that is between the load and the store of
\* cards_processed += 1 holds processing_lock, the value it loaded is still
\* the value of the counter when it stores, and the counter equals the
\* number of increments performed.
C15_CounterUnderLock ==
    /\ \A t \in Threads :
          /\ th[t].pc \in {"incr", "store"} => processing_lock = t
          /\ th[t].pc = "store" => th[t].tmp = cards_processed
    /\ cards_processed =
          Cardinality({t \in Threads : th[t].outcome = "completed"})

\* one run has incremented, and another is between its load and its store
C15_Witness ==
    \E t, u \in Threads :
        /\ th[t].outcome = "completed"
        /\ th[u].pc = "store"
        /\ cards_processed = 1

\* C19: cards_processed never exceeds the number of threads started, and
\* every step either leaves it alone or adds one to it, the latter exactly
\* when a run that read data and finished its scan ends; a run that ends
\* in any other way leaves it alone.
C19_CounterCountsFinishedScans ==
    /\ [](cards_processed <= nthreads)
    /\ [][ /\ cards_processed' \in {cards_processed, cards_processed + 1}
           /\ cards_processed' = cards_processed + 1
                 <=> \E t \in Threads :
                        /\ th[t].pc = "store"
                        /\ th[t].readRes = "data"
                        /\ th[t].idx = Len(th[t].records)
                        /\ th'[t].outcome = "completed"
           /\ \A t \in Threads :
                 th[t].pc # "done" /\ th'[t].pc = "done"
                    /\ th'[t].outcome # "completed"
                    => cards_processed' = cards_processed ]_vars

\* one run has been counted, another has ended on empty data
C19_Witness ==
    \E t, u \in Threads :
        /\ th[t].outcome = "completed"
        /\ th[u].outcome = "no_ndef"
        /\ Pos(acquired, t) < Pos(acquired, u)
        /\ cards_processed = 1

\* a URI record without a URI, or with a URI that does not start with the
\* prefix
Skipped(rec) ==
    rec.is_uri_record
       /\ (~rec.uri.some \/ ~StartsWith(rec.uri.s, HA_TAG_PREFIX))

\* C17: a run whose scan is over has been through all its records, has
\* published nothing for the URI records without a qualifying URI, and has
\* published the tag id of every qualifying record that comes after one.
C17_SkipAndContinue ==
    \A t \in Threads :
        ScanOver(t) =>
            LET rs == th[t].records
            IN  /\ th[t].idx = Len(rs)
                /\ \A j \in 1..Len(rs) :
                      (\E i \in 1..(j - 1) : Skipped(rs[i]))
                         /\ rs[j].is_uri_record /\ ~Skipped(rs[j])
                      => /\ \E n \in 1..Len(ValsBy(t)) :
                               ValsBy(t)[n] = Some(TagId(rs[j]))
                         /\ Len(ValsBy(t)) =
                               Cardinality({k \in 1..Len(rs) :
                                  rs[k].is_uri_record /\ ~Skipped(rs[k])})

\* a run has scanned a URI record without a URI followed by a Home
\* Assistant record
C17_Witness ==
    \E t \in Threads :
        /\ ScanOver(t)
        /\ Len(th[t].records) = 2
        /\ th[t].records[1].is_uri_record
        /\ ~th[t].records[1].uri.some
        /\ HAIndexes(th[t].records) = {2}

\* C18 (as claimed, for the run that had read the card when its removal
\* was handled): once the absence marker of a removed card has been
\* published, the run of that card's earlier insertion publishes no more.
C18_NoStalePresence ==
    [][\A t \in Threads :
          th[t].marked => Len(PubsBy(t))' = Len(PubsBy(t))]_vars

\* C16 (as claimed): when the readiness check fails main returns 1 with no
\* observer, no monitor and no card event handled; when it passes, main ends
\* only by returning, 0 exactly when interrupted and 1 exactly when another
\* exception arose.
C16_ExitProtocol ==
    /\ main.cause = "not_ready"
          => /\ main.pc = "returned" /\ main.ret = <<1>>
             /\ ~main.observer /\ ~main.monitor
    /\ ~main.monitor => nbatches = 0 /\ nthreads = 0 /\ calls = <<>>
    /\ main.at \notin {"none", "check"}
          => /\ main.pc = "returned"
             /\ main.ret = <<0>> <=> main.cause = "interrupt"
             /\ main.ret = <<1>> <=> main.cause = "exception"

\* C16 (amended): when the readiness check fails main returns 1 with no
\* observer, no monitor and no card event handled; no card event is handled
\* before the observer is added to the monitor; once main is inside its try
\* block it ends only by returning, 0 exactly when interrupted and 1
\* exactly when another exception arose; an interrupt before the try block
\* leaves main without a return value and without a monitor.
C16_ExitProtocolInsideTry ==
    /\ main.cause = "not_ready"
          => /\ main.pc = "returned" /\ main.ret = <<1>>
             /\ main.at = "check"
             /\ ~main.observer /\ ~main.monitor
    /\ ~main.monitor => nbatches = 0 /\ nthreads = 0 /\ calls = <<>>
    /\ InTry(main.at)
          => /\ main.pc = "returned"
             /\ main.ret = <<0>> <=> main.cause = "interrupt"
             /\ main.ret = <<1>> <=> main.cause = "exception"
    /\ main.pc = "returned" => main.at = "check" \/ InTry(main.at)
    /\ main.pc = "escaped"
          => /\ main.at \in {"check", "mqtt"}
             /\ main.cause = "interrupt"
             /\ main.ret = <<>>
             /\ ~main.observer /\ ~main.monitor

\* main was interrupted in its loop after a card had been handled and a
\* state published
C16_Witness ==
    /\ main.pc = "returned"
    /\ main.at = "monitoring"
    /\ main.ret = <<0>>
    /\ nthreads > 0
    /\ calls # <<>>

====
